---------------------------- MODULE Spec2Model ----------------------------
(***************************************************************************)
(* Model of the transaction history fetcher of monzo_api                   *)
(* (src/monzo_api/src/api_calls.py): fetch_transactions and _fetch_chunk   *)
(* against an upstream /transactions endpoint.                             *)
(*                                                                         *)
(* Time is an integer number of ticks.  A datetime has a resolution finer  *)
(* than the millisecond timestamps sent to the API: Ms ticks make one      *)
(* millisecond, and the calendar is scaled down (Second, Day, and the     *)
(* chunk of CHUNK_SIZE_DAYS days) so that a fetch of several chunks stays  *)
(* small.  A transaction is its ID; Created[id] is its creation time.      *)
(***************************************************************************)
EXTENDS Integers, Sequences, FiniteSets, TLC

\* ------------------------------------------------------------ bounds ----
\* Ticks per millisecond (the resolution lost by _to_timestamp).
Ms == 2
\* api_calls.py:15 CHUNK_SIZE_DAYS = 364, scaled down.
CHUNK_SIZE_DAYS == 2
\* api_calls.py:87 "limit": 100, scaled down.
Limit == 2
\* Number of transaction IDs the upstream holds.
NumTx == 3
\* Number of accounts the upstream may list.
NumAcc == 2

Second == 2 * Ms
Day == 2 * Second
Chunk == CHUNK_SIZE_DAYS * Day

\* Python's None where a time or a number of days is expected.
None == 0 - 1
\* No request yet.
NoRequest == [since |-> None, before |-> None, status |-> 0]
\* No exception.
NoError == [type |-> "None", message |-> <<>>]
\* No call has ended yet.
NoRun == [pc |-> "none", result |-> <<>>, error |-> NoError]
\* No snapshot: export has not returned, CACHE_FILE does not exist.
NoSnapshot == [none |-> TRUE]
\* No /accounts, /pots or /balance request yet.
NoHttp == [endpoint |-> "", status |-> 0]
\* No function was called on its own yet.
NoCall == [op |-> "none"]
Ids == 1 .. NumTx

\* The wall clock at the call: aligned to a millisecond, or not.
Now0 == 3 * Chunk
NowSet == {Now0, Now0 + 1}
\* Ages of the account at the call.
AgeSet == {Day, Chunk, Chunk + Second + 1, 2 * Chunk + Day}
\* The days argument.
DaysSet == {None, 1, CHUNK_SIZE_DAYS, 2 * CHUNK_SIZE_DAYS + 2}

VARIABLES
    now,             \* datetime.now(UTC) of the call
    accountCreated,  \* account.created (None: the API gave none)
    days,            \* the days argument (None: full history)
    Created,         \* upstream: creation time of each transaction ID
    pc,              \* "call" | "page" (a /transactions request is due) | "returned" | "raised"
    start,           \* fetch_transactions: start
    total_chunks,    \* fetch_transactions: total_chunks
    all_txs,         \* fetch_transactions: all_txs
    seen_ids,        \* fetch_transactions: seen_ids
    chunk_start,     \* fetch_transactions: chunk_start
    chunk_end,       \* fetch_transactions: chunk_end
    chunks_done,     \* fetch_transactions: chunks_done
    txs,             \* _fetch_chunk: txs
    cursor,          \* _fetch_chunk: cursor (the since parameter)
    before_str,      \* _fetch_chunk: before_str (the before parameter)
    result,          \* the returned list (meaningful when pc = "returned")
    error,           \* the exception raised (NoError when none)
    console,         \* what the call printed (warnings, notices)
    accepted,        \* every record appended to txs so far, in order of arrival
    nreq,            \* number of /transactions requests issued so far
    last_request,    \* the latest of them: [since, before, status]
    \* two calls against one upstream
    memo,            \* upstream: the response it gave to each query so far
    first,           \* the outcome of the first call (NoRun before it ends)
    \* api_calls.export and the export command of cli.py
    api_accounts,    \* upstream: the accounts /accounts lists
    no_ingest,       \* cli.export: the --no-ingest flag
    ex_pc,           \* "accounts" | "pots" | "fetch" | "fetching" | "save" | "ingest" | "verify" | "done" | "raised"
    accounts,        \* export: accounts
    active,          \* export: active
    acc_i,           \* export: position of acc in active, in either loop
    pots,            \* export: pots
    transactions,    \* export: transactions (a dict: account id -> list)
    results,         \* cli.export: results (NoSnapshot before export returns)
    ex_error,        \* the exception that ended the command (NoError when none)
    cache_file,      \* the content of CACHE_FILE (NoSnapshot: never written)
    database,        \* the tables of the store
    verify_ok,       \* what _verify_balances returned (TRUE before it ran)
    nhttp,           \* number of /accounts, /pots and /balance requests so far
    last_http,       \* the latest of them: [endpoint, status]
    pots_calls,      \* the accounts fetch_pots was called for, in order
    fetch_calls,     \* the accounts fetch_transactions was called for, in order
    \* a function of the package called on its own
    last_call,       \* the latest such call: its name, arguments and return value
    \* get_token.py: get_auth_code and the callback server
    state_token,     \* CallbackHandler.state_token (NULL: None)
    auth_code,       \* CallbackHandler.auth_code (NULL: None)
    AUTH_EVENT,      \* AUTH_EVENT.is_set()
    main_pc,         \* main thread: "idle" | "start" | "waiting" | "woken" | "closed" | "returned" | "cancelled"
    handler_pc,      \* server thread: "idle" | "check" | "store" | "signal"
    request,         \* the request do_GET is handling
    response,        \* the status of the latest response sent (0: none)
    received,        \* every request the server has accepted so far
    nserved,         \* their number
    returned_code    \* what get_auth_code returned (NULL: None)

fetchVars == <<now, accountCreated, days, Created, pc, start, total_chunks, all_txs,
               seen_ids, chunk_start, chunk_end, chunks_done, txs, cursor, before_str,
               result, error, console, accepted, nreq,
               last_request>>

twiceVars == <<memo, first>>

exportVars == <<api_accounts, no_ingest, ex_pc, accounts, active, acc_i, pots,
                transactions, results, ex_error, cache_file, database, verify_ok, nhttp,
                last_http, pots_calls, fetch_calls>>

directVars == <<last_call>>

authVars == <<state_token, auth_code, AUTH_EVENT, main_pc, handler_pc, request, response,
              received, nserved, returned_code>>

\* What a step of the fetcher leaves alone.
beyondFetch == <<twiceVars, exportVars, directVars, authVars>>

vars == <<fetchVars, beyondFetch>>

inputs == <<now, accountCreated, days, Created>>

\* ----------------------------------------------------------- helpers ----
Min(a, b) == IF a <= b THEN a ELSE b
Max(a, b) == IF a >= b THEN a ELSE b

Range(s) == {s[i] : i \in 1 .. Len(s)}

\* _to_timestamp: strftime with %f cut to 3 digits drops the sub-millisecond part.
_to_timestamp(dt) == dt - (dt % Ms)

\* list.sort(key=created): a stable insertion sort.
RECURSIVE InsertByCreated(_, _, _)
InsertByCreated(s, t, cr) ==
    IF s = <<>> THEN <<t>>
    ELSE IF cr[s[Len(s)]] <= cr[t] THEN Append(s, t)
    ELSE Append(InsertByCreated(SubSeq(s, 1, Len(s) - 1), t, cr), s[Len(s)])

RECURSIVE SortFrom(_, _, _)
SortFrom(acc, s, cr) ==
    IF s = <<>> THEN acc
    ELSE SortFrom(InsertByCreated(acc, Head(s), cr), Tail(s), cr)

\* Faulty variant: the list is returned as accumulated, without the sort.
SortByCreated_unsorted(s) == s

SortByCreated(s) == SortFrom(<<>>, s, Created)

\* max(new, key=created): the creation time of the newest transaction of new.
NewestCreated(new) ==
    CHOOSE c \in {Created[new[i]] : i \in 1 .. Len(new)} :
        \A j \in 1 .. Len(new) : Created[new[j]] <= c

\* Faulty variant: the page is taken whole, without the seen_ids filter.
NewOf_unfiltered(page, seen) == page

\* [t for t in page if t.id not in seen_ids]
NewOf(page, seen) == SelectSeq(page, LAMBDA t : t \notin seen)

\* SCAExpiredError's default message, line by line.
SCAExpiredMessage ==
    << "SCA expired - can only access last 89 days.",
       "After 5 minutes of auth, Monzo limits transaction history to 89 days.",
       "Run 'monzo auth --force' to reauthenticate for full history.",
       "or run 'monzo export --days 89' to get the last 89 days.",
       "Docs: https://docs.monzo.com/#list-transactions" >>

\* -------------------------------------------------------------- Init ----
TypeInputs ==
    /\ now \in NowSet
    /\ accountCreated \in {None} \cup {now - a : a \in AgeSet}
    /\ days \in DaysSet

InitLocals ==
    /\ pc = "call"
    /\ start = None
    /\ total_chunks = 0
    /\ all_txs = <<>>
    /\ seen_ids = {}
    /\ chunk_start = None
    /\ chunk_end = None
    /\ chunks_done = 0
    /\ txs = <<>>
    /\ cursor = None
    /\ before_str = None
    /\ result = <<>>
    /\ error = NoError
    /\ console = <<>>
    /\ accepted = <<>>
    /\ nreq = 0
    /\ last_request = NoRequest

\* No second call is modelled.
OneCall ==
    /\ memo = <<>>
    /\ first = NoRun

\* A request that is none.
NoGet == [path |-> "", code |-> "NULL", state |-> "NULL"]

\* get_auth_code is not running.
NoAuth ==
    /\ state_token = "NULL"
    /\ auth_code = "NULL"
    /\ AUTH_EVENT = FALSE
    /\ main_pc = "idle"
    /\ handler_pc = "idle"
    /\ request = NoGet
    /\ response = 0
    /\ received = {}
    /\ nserved = 0
    /\ returned_code = "NULL"

\* The export command is not modelled: the call is made directly.
NoExport ==
    /\ api_accounts = <<>>
    /\ no_ingest = FALSE
    /\ ex_pc = "fetching"
    /\ accounts = <<>>
    /\ active = <<>>
    /\ acc_i = 0
    /\ pots = <<>>
    /\ transactions = <<>>
    /\ results = NoSnapshot
    /\ ex_error = NoError
    /\ cache_file = NoSnapshot
    /\ database = [accounts |-> {}, merchants |-> {}, transactions |-> {}, pots |-> {},
                   raised |-> FALSE]
    /\ verify_ok = TRUE
    /\ nhttp = 0
    /\ last_http = NoHttp
    /\ pots_calls = <<>>
    /\ fetch_calls = <<>>

\* Upstream histories: every ID has a creation time; IDs are opaque, so only
\* histories whose creation times do not decrease with the ID are enumerated.
TxTimes ==
    {Now0 - Chunk - Second, Now0 - Chunk - 1, Now0 - Chunk, Now0 - Second,
     Now0 - 2, Now0 - 1, Now0}

Histories ==
    {h \in [Ids -> TxTimes] : \A i, j \in Ids : i < j => h[i] <= h[j]}

\* Histories for an upstream that may answer anything: the transactions lie in
\* one chunk or in two, at one time or at several.
FewTimes == {Now0 - Chunk - 1, Now0 - 2}

FewHistories ==
    {h \in [Ids -> FewTimes] : \A i, j \in Ids : i < j => h[i] <= h[j]}

\* The state before a call of fetch_transactions(client, account, days).
Init ==
    /\ now = Now0 + 1
    /\ accountCreated \in {now - Day, now - (Chunk + Second + 1)}
    /\ days \in {None, 1}
    /\ Created \in FewHistories
    /\ InitLocals
    /\ OneCall
    /\ NoAuth
    /\ last_call = NoCall
    /\ NoExport

InitHonest ==
    /\ TypeInputs
    /\ Created \in Histories
    /\ InitLocals
    /\ OneCall
    /\ NoAuth
    /\ last_call = NoCall
    /\ NoExport

\* ----------------------------------------------- fetch_transactions ----
\* api_calls.py:144 account.created or now - timedelta(days=CHUNK_SIZE_DAYS)
AccountCreated ==
    IF accountCreated = None THEN now - Chunk ELSE accountCreated

\* Faulty variant: the window is not clamped to the account's creation.
StartOf_unclamped ==
    IF days # None THEN now - days * Day ELSE AccountCreated

\* api_calls.py:147-150
StartOf ==
    IF days # None THEN Max(now - days * Day, AccountCreated) ELSE AccountCreated

\* api_calls.py:153-154; timedelta.days is the whole number of days (floor).
TotalChunks(st) ==
    LET total_days == (now - st) \div Day
    IN  Max(1, (total_days + CHUNK_SIZE_DAYS - 1) \div CHUNK_SIZE_DAYS)

\* Faulty variant: the end of a chunk is not capped at now + 1 day.
ChunkEnd_uncapped(cs) == cs + Chunk

\* api_calls.py:166
ChunkEnd(cs) == Min(cs + Chunk, now + Day)

\* api_calls.py:184-185: sort, then return.
Return(all) ==
    /\ pc' = "returned"
    /\ result' = SortByCreated(all)
    /\ all_txs' = SortByCreated(all)
    /\ txs' = <<>>
    /\ UNCHANGED <<error, cursor, before_str, chunk_end>>

\* api_calls.py:165-168 and 78-80: the loop head with chunk_start = cs; when
\* the loop goes on, _fetch_chunk is entered and its first request is due.
LoopHead(cs, all) ==
    /\ chunk_start' = cs
    /\ IF cs < now
       THEN /\ chunk_end' = ChunkEnd(cs)
            /\ txs' = <<>>
            /\ cursor' = _to_timestamp(cs)
            /\ before_str' = _to_timestamp(ChunkEnd(cs))
            /\ all_txs' = all
            /\ pc' = "page"
            /\ UNCHANGED <<result, error>>
       ELSE Return(all)

\* Faulty variant: seen_ids outlives the call (it is not created anew).
Call_keepsSeen ==
    /\ pc = "call"
    /\ start' = StartOf
    /\ total_chunks' = TotalChunks(StartOf)
    /\ chunks_done' = 0
    /\ LoopHead(StartOf, <<>>)
    /\ UNCHANGED <<inputs, console, accepted, nreq, last_request, seen_ids>>
    /\ UNCHANGED beyondFetch

\* api_calls.py:143-163: the call, up to the first request.
Call ==
    /\ pc = "call"
    /\ start' = StartOf
    /\ total_chunks' = TotalChunks(StartOf)
    /\ seen_ids' = {}
    /\ chunks_done' = 0
    /\ LoopHead(StartOf, <<>>)
    /\ UNCHANGED <<inputs, console, accepted, nreq, last_request>>
    /\ UNCHANGED beyondFetch

\* Faulty variant: a 403 never raises, the (possibly empty) list is returned.
ScaExpired_returns(all) ==
    /\ Return(all)
    /\ UNCHANGED chunk_start

\* api_calls.py:177-180: a 403 ends the fetch; with nothing collected it raises.
ScaExpired(all) ==
    IF all = <<>>
    THEN /\ pc' = "raised"
         /\ error' = [type |-> "SCAExpiredError", message |-> SCAExpiredMessage]
         /\ all_txs' = all
         /\ txs' = <<>>
         /\ UNCHANGED <<result, chunk_start, chunk_end, cursor, before_str>>
    ELSE /\ Return(all)
         /\ UNCHANGED chunk_start

\* api_calls.py:168-182: _fetch_chunk has returned (ret, sca_expired).
ChunkDone(ret, sca_expired) ==
    /\ chunks_done' = chunks_done + 1
    /\ IF sca_expired
       THEN ScaExpired(all_txs \o ret)
       ELSE LoopHead(chunk_end, all_txs \o ret)

\* ------------------------------------------------------ _fetch_chunk ----
\* api_calls.py:83-92: client.get("/transactions", since=cursor, before=before_str)
Request(status) ==
    /\ nreq' = nreq + 1
    /\ last_request' = [since |-> cursor, before |-> before_str, status |-> status]

\* Faulty variant: on a 403 the pages of the current chunk are dropped.
Respond403_dropsChunk ==
    /\ pc = "page"
    /\ Request(403)
    /\ ChunkDone(<<>>, TRUE)
    /\ UNCHANGED <<inputs, start, total_chunks, seen_ids, console, accepted>>
    /\ UNCHANGED beyondFetch

\* Faulty variant: a 403 abandons the chunk like a 400 and the fetch goes on.
Respond403_goesOn ==
    /\ pc = "page"
    /\ Request(403)
    /\ ChunkDone(txs, FALSE)
    /\ UNCHANGED <<inputs, start, total_chunks, seen_ids, console, accepted>>
    /\ UNCHANGED beyondFetch

\* api_calls.py:94-95
Respond403 ==
    /\ pc = "page"
    /\ Request(403)
    /\ ChunkDone(txs, TRUE)
    /\ UNCHANGED <<inputs, start, total_chunks, seen_ids, console, accepted>>
    /\ UNCHANGED beyondFetch

\* Faulty variant: a 400 is not caught and raise_for_status raises.
Respond400_raises ==
    /\ pc = "page"
    /\ Request(400)
    /\ pc' = "raised"
    /\ error' = [type |-> "HTTPStatusError", message |-> <<>>]
    /\ UNCHANGED <<inputs, start, total_chunks, seen_ids, console, accepted, all_txs, txs,
                   chunk_start, chunk_end, chunks_done, cursor, before_str, result>>
    /\ UNCHANGED beyondFetch

\* api_calls.py:96-97
Respond400 ==
    /\ pc = "page"
    /\ Request(400)
    /\ ChunkDone(txs, FALSE)
    /\ UNCHANGED <<inputs, start, total_chunks, seen_ids, console, accepted>>
    /\ UNCHANGED beyondFetch

\* Faulty variant: any other error status abandons the chunk like a 400.
RespondError_skipsChunk ==
    /\ pc = "page"
    /\ Request(500)
    /\ ChunkDone(txs, FALSE)
    /\ UNCHANGED <<inputs, start, total_chunks, seen_ids, console, accepted>>
    /\ UNCHANGED beyondFetch

\* api_calls.py:98 raise_for_status: any other error status propagates.
RespondError ==
    /\ pc = "page"
    /\ Request(500)
    /\ pc' = "raised"
    /\ error' = [type |-> "HTTPStatusError", message |-> <<>>]
    /\ UNCHANGED <<inputs, start, total_chunks, seen_ids, console, accepted, all_txs, txs,
                   chunk_start, chunk_end, chunks_done, cursor, before_str, result>>
    /\ UNCHANGED beyondFetch

\* api_calls.py:100-117: a 200 response carrying page.
HandlePage(page) ==
    LET new == NewOf(page, seen_ids)
    IN  IF page = <<>> \/ new = <<>>
        THEN /\ ChunkDone(txs, FALSE)
             /\ UNCHANGED <<seen_ids, accepted>>
        ELSE /\ seen_ids' = seen_ids \cup Range(new)
             /\ txs' = txs \o new
             /\ accepted' = accepted \o new
             /\ cursor' = _to_timestamp(NewestCreated(new) - Second)
             /\ UNCHANGED <<pc, all_txs, chunk_start, chunk_end, chunks_done,
                            before_str, result, error>>

\* The pages an arbitrary upstream may send: at most Limit records, in any
\* order, IDs possibly repeated.  The handler drops the records whose ID is in
\* seen_ids before it reads anything else, so pages that differ only in such
\* records lead to the same state: the pages without any are enumerated, and
\* the pages of one already seen record.
AnyPages ==
    UNION {[1 .. n -> (Ids \ seen_ids)] : n \in 0 .. Limit}
        \cup {<<t>> : t \in seen_ids}

Respond200 ==
    /\ pc = "page"
    /\ Request(200)
    /\ \E page \in AnyPages : HandlePage(page)
    /\ UNCHANGED <<inputs, start, total_chunks, console>>
    /\ UNCHANGED beyondFetch

\* An upstream that answers with the oldest (at most Limit) transactions
\* with since <= created < before.
RECURSIVE SeqOfSet(_)
SeqOfSet(S) ==
    IF S = {} THEN <<>>
    ELSE LET m == CHOOSE x \in S : \A y \in S : x <= y
         IN  <<m>> \o SeqOfSet(S \ {m})

HonestPages(since, before) ==
    LET M == {t \in Ids : since <= Created[t] /\ Created[t] < before}
        n == Min(Limit, Cardinality(M))
    IN  {SortByCreated(SeqOfSet(S)) : S \in
            {S \in SUBSET M : /\ Cardinality(S) = n
                              /\ \A a \in S, b \in M \ S : Created[a] <= Created[b]}}

RespondHonest ==
    /\ pc = "page"
    /\ Request(200)
    /\ \E page \in HonestPages(cursor, before_str) : HandlePage(page)
    /\ UNCHANGED <<inputs, start, total_chunks, console>>
    /\ UNCHANGED beyondFetch

Next ==
    \/ Call
    \/ Respond200
    \/ Respond400
    \/ Respond403
    \/ RespondError

Spec == Init /\ [][Next]_vars

NextHonest ==
    \/ Call
    \/ RespondHonest

SpecHonest == InitHonest /\ [][NextHonest]_vars

\* ---------------------------------------- two calls, one upstream ----
\* Pages of at most Limit distinct records, by ascending ID, or of one record
\* already seen.
DistinctPages ==
    {SeqOfSet(S) : S \in {S \in SUBSET (Ids \ seen_ids) : Cardinality(S) <= Limit}}
        \cup {<<t>> : t \in seen_ids}

\* The responses an upstream may give to a query.
Responses ==
    [status : {400, 403, 500}, page : {<<>>}]
        \cup [status : {200}, page : DistinctPages]

\* api_calls.py:94-117: what _fetch_chunk does with the response r.
Answer(r) ==
    /\ Request(r.status)
    /\ CASE r.status = 403 ->
              /\ ChunkDone(txs, TRUE)
              /\ UNCHANGED <<inputs, start, total_chunks, seen_ids, console, accepted>>
         [] r.status = 400 ->
              /\ ChunkDone(txs, FALSE)
              /\ UNCHANGED <<inputs, start, total_chunks, seen_ids, console, accepted>>
         [] r.status = 200 ->
              /\ HandlePage(r.page)
              /\ UNCHANGED <<inputs, start, total_chunks, console>>
         [] OTHER ->
              /\ pc' = "raised"
              /\ error' = [type |-> "HTTPStatusError", message |-> <<>>]
              /\ UNCHANGED <<inputs, start, total_chunks, seen_ids, console, accepted,
                             all_txs, txs, chunk_start, chunk_end, chunks_done, cursor,
                             before_str, result>>

\* An unchanged upstream: a query asked before gets the response it got
\* before, a new query gets any response, which is remembered.
RespondSame ==
    /\ pc = "page"
    /\ LET q == <<cursor, before_str>>
       IN  IF q \in DOMAIN memo
           THEN /\ Answer(memo[q])
                /\ UNCHANGED memo
           ELSE \E r \in Responses :
                   /\ Answer(r)
                   /\ memo' = memo @@ (q :> r)
    /\ UNCHANGED <<first, exportVars, directVars, authVars>>

\* The first call has ended and fetch_transactions is called again with the
\* same arguments at the same time.  Nothing of the first call is cleared for
\* the second: whatever it needs anew it has to set itself
\* (api_calls.py:143-163); only the outcome and the request counters are
\* those of the call in progress.
CallAgain ==
    /\ pc \in {"returned", "raised"}
    /\ first = NoRun
    /\ first' = [pc |-> pc, result |-> result, error |-> error]
    /\ pc' = "call"
    /\ result' = <<>>
    /\ error' = NoError
    /\ accepted' = <<>>
    /\ nreq' = 0
    /\ last_request' = NoRequest
    /\ UNCHANGED <<inputs, console, memo, start, total_chunks, all_txs, seen_ids,
                   chunk_start, chunk_end, chunks_done, txs, cursor, before_str>>
    /\ UNCHANGED <<exportVars, directVars, authVars>>

InitTwice ==
    /\ now = Now0 + 1
    /\ accountCreated \in {now - Day, now - (Chunk + Second + 1)}
    /\ days \in {None, 1}
    /\ Created \in FewHistories
    /\ InitLocals
    /\ OneCall
    /\ NoAuth
    /\ last_call = NoCall
    /\ NoExport

NextTwice ==
    \/ Call
    \/ RespondSame
    \/ CallAgain

SpecTwice == InitTwice /\ [][NextTwice]_vars

\* ----------------------------------------------------- MonzoDatabase ----
\* SQL NULL in a text column, Python's None for a string.
NULL == "NULL"
\* Transaction.merchant (models.py:67): None, a string ID, or a Merchant.
NoMerchant == [kind |-> "None", id |-> NULL, name |-> NULL]
\* A merchant that was not expanded: the bare string ID.
BareMerchant == [kind |-> "str", id |-> "merch_1", name |-> NULL]

\* A table is the set of its rows; the column id is its primary key.
Keys(tbl) == {r.id : r \in tbl}

\* Faulty variant: a plain INSERT into a table without a primary key.
InsertOrReplace_appends(tbl, row) == tbl \cup {row}

\* database.py:279, 301, 338, 372: INSERT OR REPLACE replaces the row of the
\* same id, if there is one.
InsertOrReplace(tbl, row) == {r \in tbl : r.id # row.id} \cup {row}

\* "for x in xs: conn.execute(INSERT OR REPLACE ...)": one statement per row,
\* each committed on its own.
RECURSIVE InsertAll(_, _)
InsertAll(tbl, rows) ==
    IF rows = <<>> THEN tbl
    ELSE InsertAll(InsertOrReplace(tbl, Head(rows)), Tail(rows))

\* The loop over rows against the foreign keys of the schema: the first row
\* that violates one raises, the rows before it stay stored.
InsertChecked(tbl, rows, FkOk(_)) ==
    LET bad == {i \in 1 .. Len(rows) : ~FkOk(rows[i])}
        n == IF bad = {} THEN Len(rows)
             ELSE (CHOOSE i \in bad : \A j \in bad : i <= j) - 1
    IN  [table |-> InsertAll(tbl, SubSeq(rows, 1, n)), raised |-> bad # {}]

\* database.py:283-290, 306-322, 344-362, 376-387: the columns kept of each row.
AccountRow(acc) == [id |-> acc.id, closed |-> acc.closed, created |-> acc.created]
MerchantRow(m) == [id |-> m.id, name |-> m.name]
\* models.py:87-92 merchant_id: the id of an expanded merchant, or the string
\* itself, or None.
merchant_id(tx) == IF tx.merchant.kind = "None" THEN NULL ELSE tx.merchant.id
TransactionRow(tx) ==
    [id |-> tx.id, account_id |-> tx.account_id, merchant_id |-> merchant_id(tx),
     created |-> tx.created, amount |-> tx.amount, decline_reason |-> tx.decline_reason]
PotRow(pot) == [id |-> pot.id, account_id |-> pot.current_account_id, balance |-> pot.balance]

\* [f(s[1]), ..., f(s[n])]
Map(s, f(_)) == [i \in 1 .. Len(s) |-> f(s[i])]

\* database.py:273-292
import_accounts(db, accs) ==
    [db EXCEPT !.accounts = InsertAll(@, Map(accs, AccountRow)), !.raised = FALSE]

\* database.py:294-324
import_merchants(db, merchants) ==
    [db EXCEPT !.merchants = InsertAll(@, Map(merchants, MerchantRow)), !.raised = FALSE]

\* database.py:326-364, against the foreign keys of database.py:157-158
import_transactions(db, rows) ==
    LET FkOk(r) == /\ r.account_id \in Keys(db.accounts)
                   /\ r.merchant_id = NULL \/ r.merchant_id \in Keys(db.merchants)
        done == InsertChecked(db.transactions, Map(rows, TransactionRow), FkOk)
    IN  [db EXCEPT !.transactions = done.table, !.raised = done.raised]

\* database.py:366-389, against the foreign key of database.py:174
import_pots(db, pts) ==
    LET FkOk(r) == r.account_id \in Keys(db.accounts)
        done == InsertChecked(db.pots, Map(pts, PotRow), FkOk)
    IN  [db EXCEPT !.pots = done.table, !.raised = done.raised]

\* models.py:146-149: the lists of data.transactions, one after the other in
\* the order of keys (the accounts the lists were stored for).
RECURSIVE Flatten(_, _)
Flatten(rows, keys) ==
    IF keys = <<>> THEN <<>>
    ELSE rows[Head(keys)] \o Flatten(rows, Tail(keys))

all_transactions(data) == Flatten(data.transactions, data.keys)

\* models.py:151-158: the expanded merchants, one per id, the last one met.
all_merchants(data) ==
    LET atx == all_transactions(data)
        last == {i \in 1 .. Len(atx) :
                    /\ atx[i].merchant.kind = "Merchant"
                    /\ \A j \in i + 1 .. Len(atx) :
                          atx[j].merchant.kind = "Merchant" => atx[j].merchant.id # atx[i].merchant.id}
    IN  Map(SeqOfSet(last), LAMBDA i : atx[i].merchant)

\* database.py:391-421: the four imports in this order; an exception ends it.
import_data(db, data) ==
    LET a == import_accounts(db, data.accounts)
        m == import_merchants(a, all_merchants(data))
        t == import_transactions(m, all_transactions(data))
    IN  IF t.raised THEN t ELSE import_pots(t, data.pots)

\* The store of a new database file.
EmptyDb == [accounts |-> {}, merchants |-> {}, transactions |-> {}, pots |-> {},
            raised |-> FALSE]

\* DATE_TRUNC('day', created)::DATE
DateOf(created) == created \div Day

RECURSIVE SumOf(_, _)
SumOf(rows, column) ==
    IF rows = {} THEN 0
    ELSE LET r == CHOOSE x \in rows : TRUE
         IN  r[column] + SumOf(rows \ {r}, column)

\* Faulty variant: the view without "WHERE decline_reason IS NULL".
daily_totals_withDeclined(rows) ==
    {[date |-> g[1], account_id |-> g[2],
      daily_net |-> SumOf({r \in rows : DateOf(r.created) = g[1] /\ r.account_id = g[2]},
                          "amount")] :
        g \in {<<DateOf(r.created), r.account_id>> : r \in rows}}

\* database.py:181-189: the CTE daily_totals of the view.
daily_totals(rows) ==
    LET kept == {r \in rows : r.decline_reason = NULL}
    IN  {[date |-> g[1], account_id |-> g[2],
          daily_net |-> SumOf({r \in kept : DateOf(r.created) = g[1] /\ r.account_id = g[2]},
                              "amount")] :
            g \in {<<DateOf(r.created), r.account_id>> : r \in kept}}

\* database.py:190-195: SUM(daily_net) OVER (PARTITION BY account_id ORDER BY date)
daily_balances(rows) ==
    LET totals == daily_totals(rows)
    IN  {[date |-> d.date, account_id |-> d.account_id, daily_net |-> d.daily_net,
          eod_balance |-> SumOf({e \in totals : e.account_id = d.account_id /\ e.date <= d.date},
                                "daily_net")] :
            d \in totals}

\* x / 100.0: the double nearest to x hundredths, named by x.
Pounds(x) == [hundredths |-> x]

\* database.py:423-437: per account the eod_balance of its latest date, in pounds.
account_balances(db) ==
    LET view == daily_balances(db.transactions)
        latest == {r \in view : \A q \in view : q.account_id = r.account_id => q.date <= r.date}
    IN  [a \in {r.account_id : r \in latest} |->
            Pounds((CHOOSE r \in latest : r.account_id = a).eod_balance)]

\* -------------------------------------------------- _verify_balances ----
Abs(x) == IF x < 0 THEN 0 - x ELSE x

\* The a in 0 .. 12 for which the doubles nearest to (a + 1) / 100 and to
\* a / 100 differ by less than the double 0.01 (IEEE 754 binary64, the
\* arithmetic of api_bal - db_bal); for the other a they differ by 0.01 or more.
CentLost == {2, 5, 7, 8, 10, 11}

\* cli.py:46-47: abs(api_bal - db_bal) < 0.01 on two doubles.
WithinTolerance(api_bal, db_bal) ==
    LET d == Abs(api_bal.hundredths - db_bal.hundredths)
    IN  \/ d = 0
        \/ d = 1 /\ Min(Abs(api_bal.hundredths), Abs(db_bal.hundredths)) \in CentLost

\* Faulty variant: closed accounts are compared too.
Compared_withClosed(accs, api_balances) ==
    SelectSeq(accs, LAMBDA acc : acc.id \in DOMAIN api_balances)

\* cli.py:41-43: the accounts the loop does not skip.
Compared(accs, api_balances) ==
    SelectSeq(accs, LAMBDA acc : ~acc.closed /\ acc.id \in DOMAIN api_balances)

\* cli.py:30-65: the rows of the table (account, status) and the value returned.
_verify_balances(accs, api_balances, db_balances) ==
    LET compared == Compared(accs, api_balances)
        db_bal(acc) == IF acc.id \in DOMAIN db_balances THEN db_balances[acc.id] ELSE Pounds(0)
        ok(acc) == WithinTolerance(api_balances[acc.id], db_bal(acc))
        rows == Map(compared, LAMBDA acc : [id |-> acc.id, ok |-> ok(acc)])
        all_ok == \A i \in 1 .. Len(compared) : ok(compared[i])
    IN  [rows |-> rows, all_ok |-> all_ok,
         console |-> IF all_ok THEN <<>>
                     ELSE <<"Warning: Balances do not match between the API and the database.">>]

\* ------------------------------------- api_calls.export, cli.export ----
\* The command "monzo export", request by request.  The progress lines that
\* export and the command print are not recorded in console.
AccIds == 1 .. NumAcc

\* The account lists /accounts may give: any number of accounts, open or
\* closed; the first one is a day old, the others older than a chunk.
AccountOf(id, closed) ==
    [id |-> id, closed |-> closed,
     created |-> IF id = 1 THEN Now0 + 1 - Day ELSE Now0 + 1 - (Chunk + Second + 1)]

AccountLists ==
    UNION {{[i \in 1 .. n |-> AccountOf(i, c[i])] : c \in [1 .. n -> BOOLEAN]} : n \in 0 .. NumAcc}

\* What /pots gives for an account: the first account has no pot, the others
\* have one each.
PotLists(id) ==
    {IF id = 1 THEN <<>> ELSE <<[id |-> id, current_account_id |-> id, balance |-> 1]>>}

\* The Transaction the upstream holds under the ID t, listed for account a.
UpstreamTransaction(t, a) ==
    [id |-> t, account_id |-> a, created |-> Created[t], amount |-> 2 * t - 3,
     decline_reason |-> IF t = 1 THEN "INSUFFICIENT_FUNDS" ELSE NULL,
     merchant |-> IF t % 2 = 0 THEN [kind |-> "Merchant", id |-> "merch_1", name |-> "Shop"]
                  ELSE NoMerchant]

\* The balances /balance may report, in minor units.
ApiBalances == {0, 1, 3}

HTTPStatusError == [type |-> "HTTPStatusError", message |-> <<>>]

\* api_calls.py:230-237 (keys: the order of the keys of the dict).
MonzoExport(txs_by_account) ==
    [days |-> days, since |-> None, accounts |-> accounts, pots |-> pots,
     transactions |-> txs_by_account,
     keys |-> SelectSeq(Map(active, LAMBDA acc : acc.id),
                        LAMBDA id : id \in DOMAIN txs_by_account)]

\* One /accounts, /pots or /balance request.
Http(endpoint, status) ==
    /\ nhttp' = nhttp + 1
    /\ last_http' = [endpoint |-> endpoint, status |-> status]

\* raise_for_status() on a response that is no success (api_calls.py:42, 49).
HttpRaises ==
    /\ ex_pc' = "raised"
    /\ ex_error' = HTTPStatusError
    /\ UNCHANGED <<api_accounts, no_ingest, accounts, active, acc_i, pots, transactions,
                   results, cache_file, database, verify_ok, pots_calls, fetch_calls>>

\* api_calls.py:211-237 once the loop over active has ended: export returns.
ExportReturns(txs_by_account) ==
    /\ transactions' = txs_by_account
    /\ results' = MonzoExport(txs_by_account)
    /\ ex_pc' = "save"

\* Faulty variant: closed accounts are not filtered out.
ActiveOf_all(accs) == accs

\* api_calls.py:202 [a for a in accounts if not a.closed]
ActiveOf(accs) == SelectSeq(accs, LAMBDA a : ~a.closed)

\* api_calls.py:194-203, and the rest of export when no account is active.
GetAccounts ==
    /\ ex_pc = "accounts"
    /\ \E status \in {200, 500} :
          /\ Http("/accounts", status)
          /\ IF status # 200
             THEN HttpRaises /\ UNCHANGED fetchVars
             ELSE LET act == ActiveOf(api_accounts)
                  IN  /\ accounts' = api_accounts
                      /\ active' = act
                      /\ acc_i' = 1
                      /\ pots' = <<>>
                      /\ IF act = <<>>
                         THEN /\ transactions' = <<>>
                              /\ results' = [days |-> days, since |-> None,
                                             accounts |-> api_accounts, pots |-> <<>>,
                                             transactions |-> <<>>, keys |-> <<>>]
                              /\ ex_pc' = "save"
                         ELSE /\ ex_pc' = "pots"
                              /\ UNCHANGED <<transactions, results>>
                      /\ UNCHANGED <<api_accounts, no_ingest, ex_error, cache_file, database,
                                     verify_ok, pots_calls, fetch_calls, fetchVars>>
    /\ UNCHANGED <<twiceVars, directVars, authVars>>

\* api_calls.py:206-209: fetch_pots for the next active account.
GetPots ==
    /\ ex_pc = "pots"
    /\ \E status \in {200, 500} :
          /\ Http("/pots", status)
          /\ IF status # 200
             THEN HttpRaises
             ELSE \E list \in PotLists(active[acc_i].id) :
                     /\ pots' = pots \o list
                     /\ pots_calls' = Append(pots_calls, active[acc_i].id)
                     /\ IF acc_i < Len(active)
                        THEN acc_i' = acc_i + 1 /\ UNCHANGED ex_pc
                        ELSE acc_i' = 1 /\ ex_pc' = "fetch"
                     /\ UNCHANGED <<api_accounts, no_ingest, accounts, active, transactions,
                                    results, ex_error, cache_file, database, verify_ok,
                                    fetch_calls>>
    /\ UNCHANGED <<fetchVars, twiceVars, directVars, authVars>>

\* api_calls.py:221-223: fetch_transactions(client, acc, days, ...) is called
\* for the next active account.
StartFetch ==
    /\ ex_pc = "fetch"
    /\ ex_pc' = "fetching"
    /\ fetch_calls' = Append(fetch_calls, active[acc_i].id)
    /\ accountCreated' = active[acc_i].created
    /\ pc' = "call"
    /\ result' = <<>>
    /\ error' = NoError
    /\ accepted' = <<>>
    /\ UNCHANGED <<now, days, Created, start, total_chunks, all_txs, seen_ids, chunk_start,
                   chunk_end, chunks_done, txs, cursor, before_str, console, nreq,
                   last_request>>
    /\ UNCHANGED <<api_accounts, no_ingest, accounts, active, acc_i, pots, transactions,
                   results, ex_error, cache_file, database, verify_ok, nhttp, last_http,
                   pots_calls>>
    /\ UNCHANGED <<twiceVars, directVars, authVars>>

\* api_calls.py:223-237: fetch_transactions has returned; its list is stored
\* under the account's id, and after the last account export returns.
EndFetch ==
    /\ ex_pc = "fetching"
    /\ pc = "returned"
    /\ pc' = "idle"
    /\ LET acc == active[acc_i]
           got == Map(result, LAMBDA t : UpstreamTransaction(t, acc.id))
           dict == [k \in DOMAIN transactions \cup {acc.id} |->
                       IF k = acc.id THEN got ELSE transactions[k]]
       IN  IF acc_i < Len(active)
           THEN /\ transactions' = dict
                /\ acc_i' = acc_i + 1
                /\ ex_pc' = "fetch"
                /\ UNCHANGED results
           ELSE /\ ExportReturns(dict)
                /\ UNCHANGED acc_i
    /\ UNCHANGED <<now, accountCreated, days, Created, start, total_chunks, all_txs, seen_ids,
                   chunk_start, chunk_end, chunks_done, txs, cursor, before_str, result,
                   error, console, accepted, nreq, last_request>>
    /\ UNCHANGED <<api_accounts, no_ingest, accounts, active, pots, ex_error, cache_file,
                   database, verify_ok, nhttp, last_http, pots_calls, fetch_calls>>
    /\ UNCHANGED <<twiceVars, directVars, authVars>>

\* Faulty variant: the exception is swallowed and export returns a snapshot of
\* the accounts fetched so far.
FetchRaised_returnsPartial ==
    /\ ex_pc = "fetching"
    /\ pc = "raised"
    /\ ExportReturns(transactions)
    /\ ex_error' = error
    /\ UNCHANGED <<api_accounts, no_ingest, accounts, active, acc_i, pots,
                   cache_file, database, verify_ok, nhttp, last_http, pots_calls,
                   fetch_calls>>
    /\ UNCHANGED <<fetchVars, twiceVars, directVars, authVars>>

\* api_calls.py:223 and cli.py:80: an exception of fetch_transactions is caught
\* nowhere; it ends export and the command.
FetchRaised ==
    /\ ex_pc = "fetching"
    /\ pc = "raised"
    /\ ex_pc' = "raised"
    /\ ex_error' = error
    /\ UNCHANGED <<api_accounts, no_ingest, accounts, active, acc_i, pots, transactions,
                   results, cache_file, database, verify_ok, nhttp, last_http, pots_calls,
                   fetch_calls>>
    /\ UNCHANGED <<fetchVars, twiceVars, directVars, authVars>>

\* cli.py:81-86: results.save(CACHE_FILE)
CliSave ==
    /\ ex_pc = "save"
    /\ cache_file' = results
    /\ ex_pc' = IF no_ingest THEN "done" ELSE "ingest"
    /\ UNCHANGED <<api_accounts, no_ingest, accounts, active, acc_i, pots, transactions,
                   results, ex_error, database, verify_ok, nhttp, last_http, pots_calls,
                   fetch_calls>>
    /\ UNCHANGED <<fetchVars, twiceVars, directVars, authVars>>

\* cli.py:88-89: database.import_data(results)
CliIngest ==
    /\ ex_pc = "ingest"
    /\ database' = import_data(database, results)
    /\ IF import_data(database, results).raised
       THEN /\ ex_pc' = "raised"
            /\ ex_error' = [type |-> "ConstraintException", message |-> <<>>]
       ELSE /\ ex_pc' = "verify"
            /\ UNCHANGED ex_error
    /\ UNCHANGED <<api_accounts, no_ingest, accounts, active, acc_i, pots, transactions,
                   results, cache_file, verify_ok, nhttp, last_http, pots_calls,
                   fetch_calls>>
    /\ UNCHANGED <<fetchVars, twiceVars, directVars, authVars>>

\* cli.py:91-102: /accounts again, /balance for every account that is not
\* closed, and the comparison with the balances of the store.  failed: the
\* request that is answered with an error (0: none).
CliVerify ==
    /\ ex_pc = "verify"
    /\ LET open == SelectSeq(api_accounts, LAMBDA a : ~a.closed)
       IN  \E failed \in 0 .. 1 + Len(open) :
              IF failed # 0
              THEN /\ nhttp' = nhttp + failed
                   /\ last_http' = [endpoint |-> IF failed = 1 THEN "/accounts" ELSE "/balance",
                                    status |-> 500]
                   /\ ex_pc' = "raised"
                   /\ ex_error' = HTTPStatusError
                   /\ UNCHANGED <<verify_ok, console>>
              ELSE \E bal \in [{a.id : a \in Range(open)} -> ApiBalances] :
                      LET api_balances == [id \in DOMAIN bal |-> Pounds(bal[id])]
                          v == _verify_balances(api_accounts, api_balances,
                                                account_balances(database))
                      IN  /\ nhttp' = nhttp + 1 + Len(open)
                          /\ last_http' = [endpoint |-> IF open = <<>> THEN "/accounts"
                                                        ELSE "/balance",
                                           status |-> 200]
                          /\ verify_ok' = v.all_ok
                          /\ console' = console \o v.console
                          /\ ex_pc' = "done"
                          /\ UNCHANGED ex_error
    /\ UNCHANGED <<api_accounts, no_ingest, accounts, active, acc_i, pots, transactions,
                   results, cache_file, database, pots_calls, fetch_calls>>
    /\ UNCHANGED <<now, accountCreated, days, Created, pc, start, total_chunks, all_txs,
                   seen_ids, chunk_start, chunk_end, chunks_done, txs, cursor, before_str,
                   result, error, accepted, nreq, last_request>>
    /\ UNCHANGED <<twiceVars, directVars, authVars>>

\* The state before the command "monzo export [--days n] [--no-ingest]".
InitExport ==
    /\ now = Now0 + 1
    /\ accountCreated = None
    /\ days \in {None, 1}
    /\ Created \in FewHistories
    /\ pc = "idle"
    /\ start = None
    /\ total_chunks = 0
    /\ all_txs = <<>>
    /\ seen_ids = {}
    /\ chunk_start = None
    /\ chunk_end = None
    /\ chunks_done = 0
    /\ txs = <<>>
    /\ cursor = None
    /\ before_str = None
    /\ result = <<>>
    /\ error = NoError
    /\ console = <<>>
    /\ accepted = <<>>
    /\ nreq = 0
    /\ last_request = NoRequest
    /\ OneCall
    /\ NoAuth
    /\ last_call = NoCall
    /\ api_accounts \in AccountLists
    /\ no_ingest \in BOOLEAN
    /\ ex_pc = "accounts"
    /\ accounts = <<>>
    /\ active = <<>>
    /\ acc_i = 0
    /\ pots = <<>>
    /\ transactions = <<>>
    /\ results = NoSnapshot
    /\ ex_error = NoError
    /\ cache_file = NoSnapshot
    /\ database = EmptyDb
    /\ verify_ok = TRUE
    /\ nhttp = 0
    /\ last_http = NoHttp
    /\ pots_calls = <<>>
    /\ fetch_calls = <<>>

NextExport ==
    \/ GetAccounts
    \/ GetPots
    \/ StartFetch
    \/ Call
    \/ RespondHonest
    \/ Respond400
    \/ Respond403
    \/ RespondError
    \/ EndFetch
    \/ FetchRaised
    \/ CliSave
    \/ CliIngest
    \/ CliVerify

SpecExport == InitExport /\ [][NextExport]_vars

\* ------------------------------------ MonzoDatabase, called directly ----
\* The import methods called in any order on a new store, with small
\* arguments: account 1 (open) and account 2 (open or closed); one merchant
\* under two names; transactions 1 and 2 of either account, with or without
\* the merchant; one pot, of either account.
SeqsUpTo2(S) == {<<>>} \cup {<<x>> : x \in S} \cup {<<x, y>> : x \in S, y \in S}

StoreAccounts == {AccountOf(1, FALSE), AccountOf(2, FALSE), AccountOf(2, TRUE)}

StoreMerchant(name) == [kind |-> "Merchant", id |-> "merch_1", name |-> name]

StoreTransactions ==
    {[id |-> t, account_id |-> a, created |-> Now0, amount |-> x, decline_reason |-> NULL,
      merchant |-> IF x > 0 THEN StoreMerchant("Shop") ELSE NoMerchant] :
        t \in {1, 2}, a \in {1, 2}, x \in {0 - 1, 2}}

StorePots ==
    {[id |-> 1, current_account_id |-> a, balance |-> b] :
        a \in {1, 2}, b \in {0, 5}} \ {[id |-> 1, current_account_id |-> 2, balance |-> 0]}

\* The exports handed to import_data: one or both accounts, at most one
\* transaction (transaction 1, listed under the first account; its merchant
\* absent, expanded, or a bare string ID) and at most one pot.
StoreExports ==
    {[accounts |-> accs, pots |-> pts,
      transactions |-> [id \in Range(Map(accs, LAMBDA a : a.id)) |->
                           IF id = accs[1].id THEN atx ELSE <<>>],
      keys |-> Map(accs, LAMBDA a : a.id)] :
        accs \in {<<AccountOf(2, FALSE)>>, <<AccountOf(1, FALSE), AccountOf(2, TRUE)>>},
        atx \in {<<>>} \cup {<<tx>> : tx \in {x \in StoreTransactions : x.id = 1}}
                    \cup {<<[id |-> 1, account_id |-> 2, created |-> Now0, amount |-> 2,
                             decline_reason |-> NULL, merchant |-> BareMerchant]>>},
        pts \in {<<>>, <<[id |-> 1, current_account_id |-> 1, balance |-> 5]>>}}

\* What a direct call of a method of the store leaves alone.
beyondStore ==
    <<fetchVars, twiceVars, authVars, api_accounts, no_ingest, ex_pc, accounts, active, acc_i, pots,
      transactions, results, ex_error, cache_file, verify_ok, nhttp, last_http, pots_calls,
      fetch_calls>>

ImportAccounts ==
    \E accs \in SeqsUpTo2(StoreAccounts) :
        /\ database' = import_accounts(database, accs)
        /\ last_call' = [op |-> "import_accounts", arg |-> accs]
        /\ UNCHANGED beyondStore

\* The argument is a dict keyed by merchant id: one merchant per id.
ImportMerchants ==
    \E merchants \in {<<>>, <<StoreMerchant("Shop")>>, <<StoreMerchant("Store")>>} :
        /\ database' = import_merchants(database, merchants)
        /\ last_call' = [op |-> "import_merchants", arg |-> merchants]
        /\ UNCHANGED beyondStore

\* A list of two begins with a version of transaction 1.
ImportTransactions ==
    \E rows \in {s \in SeqsUpTo2(StoreTransactions) : Len(s) = 2 => s[1].id = 1} :
        /\ database' = import_transactions(database, rows)
        /\ last_call' = [op |-> "import_transactions", arg |-> rows]
        /\ UNCHANGED beyondStore

ImportPots ==
    \E pts \in SeqsUpTo2(StorePots) :
        /\ database' = import_pots(database, pts)
        /\ last_call' = [op |-> "import_pots", arg |-> pts]
        /\ UNCHANGED beyondStore

ImportData ==
    \E data \in StoreExports :
        /\ database' = import_data(database, data)
        /\ last_call' = [op |-> "import_data", arg |-> data]
        /\ UNCHANGED beyondStore

\* A new store (setup() on a new file), nothing else going on.
InitDb ==
    /\ now = Now0 + 1
    /\ accountCreated = None
    /\ days = None
    /\ Created = [t \in Ids |-> Now0]
    /\ InitLocals
    /\ OneCall
    /\ NoAuth
    /\ NoExport
    /\ last_call = NoCall

NextDb ==
    \/ ImportAccounts
    \/ ImportMerchants
    \/ ImportTransactions
    \/ ImportPots
    \/ ImportData

SpecDb == InitDb /\ [][NextDb]_vars

\* --------------------------------- _verify_balances, called directly ----
\* No value was returned yet.
NoReturn == [none |-> TRUE]

\* The store's balances, in minor units.
DbBalances == {0, 2}

\* A dict from some of the accounts to a balance in pounds.
BalanceDicts(S) ==
    UNION {[ids -> {Pounds(x) : x \in S}] : ids \in SUBSET AccIds}

\* The state before _verify_balances(accounts, api_balances, db_balances).
InitVerify ==
    /\ now = Now0 + 1
    /\ accountCreated = None
    /\ days = None
    /\ Created = [t \in Ids |-> Now0]
    /\ InitLocals
    /\ OneCall
    /\ NoAuth
    /\ NoExport
    /\ last_call \in {[op |-> "_verify_balances", accounts |-> accs, api_balances |-> api,
                       db_balances |-> db, returned |-> NoReturn] :
                         accs \in AccountLists, api \in BalanceDicts(ApiBalances),
                         db \in BalanceDicts(DbBalances)}

VerifyBalances ==
    /\ last_call.op = "_verify_balances"
    /\ last_call.returned = NoReturn
    /\ last_call' = [last_call EXCEPT !.returned =
                        _verify_balances(last_call.accounts, last_call.api_balances,
                                         last_call.db_balances)]
    /\ UNCHANGED <<fetchVars, twiceVars, exportVars, authVars>>

NextVerify == VerifyBalances

SpecVerify == InitVerify /\ [][NextVerify]_vars

\* ------------------------- export_data.merge_transactions, called directly ----
\* A transaction of the cache file is a dict; its "created" is the string the
\* API sent, here a sequence of character codes.  Python orders strings
\* character by character, a proper prefix first.
RECURSIVE StrLeq(_, _)
StrLeq(a, b) ==
    IF a = <<>> THEN TRUE
    ELSE IF b = <<>> THEN FALSE
    ELSE IF Head(a) # Head(b) THEN Head(a) < Head(b)
    ELSE StrLeq(Tail(a), Tail(b))

\* A dict (keys in insertion order) as the sequence of its values, each
\* carrying its key in the field id.
DictKeys(d) == {d[i].id : i \in 1 .. Len(d)}

\* Faulty variant: a key already there keeps its value.
DictSet_keepsOld(d, tx) ==
    IF tx.id \in DictKeys(d) THEN d ELSE Append(d, tx)

\* d[tx["id"]] = tx: a key already there keeps its place and gets the value.
DictSet(d, tx) ==
    IF tx.id \in DictKeys(d)
    THEN [i \in 1 .. Len(d) |-> IF d[i].id = tx.id THEN tx ELSE d[i]]
    ELSE Append(d, tx)

RECURSIVE DictUpdate(_, _)
DictUpdate(d, list) ==
    IF list = <<>> THEN d
    ELSE DictUpdate(DictSet(d, Head(list)), Tail(list))

\* sorted(values, key=lambda x: x["created"]): stable, ascending by the string.
RECURSIVE InsertByKey(_, _)
InsertByKey(s, tx) ==
    IF s = <<>> THEN <<tx>>
    ELSE IF StrLeq(Head(s).created, tx.created) THEN <<Head(s)>> \o InsertByKey(Tail(s), tx)
    ELSE <<tx>> \o s

RECURSIVE SortedByKey(_, _)
SortedByKey(done, s) ==
    IF s = <<>> THEN done
    ELSE SortedByKey(InsertByKey(done, Head(s)), Tail(s))

\* export_data.py:117-124
merge_transactions(cached, new) ==
    LET tx_by_id == DictUpdate(<<>>, cached)
        new_count == Cardinality({i \in 1 .. Len(new) : new[i].id \notin DictKeys(tx_by_id)})
        updated == DictUpdate(tx_by_id, new)
    IN  [merged |-> SortedByKey(<<>>, updated), new_count |-> new_count]

\* The "created" strings: "1", "10" and "2" (in the order of Python).
CreatedStrings == {<<1>>, <<1, 0>>, <<2>>}

\* The transactions of the lists: three IDs, any of the strings; the first
\* ID comes with either of two amounts.
MergeTransactions ==
    {[id |-> t, created |-> c, amount |-> x] :
        t \in {1, 2, 3}, c \in CreatedStrings, x \in {5, 7}} \
    {[id |-> t, created |-> c, amount |-> 7] : t \in {2, 3}, c \in CreatedStrings}

\* The state before merge_transactions(cached, new).
InitMerge ==
    /\ now = Now0 + 1
    /\ accountCreated = None
    /\ days = None
    /\ Created = [t \in Ids |-> Now0]
    /\ InitLocals
    /\ OneCall
    /\ NoAuth
    /\ NoExport
    /\ last_call \in {[op |-> "merge_transactions", cached |-> cached, new |-> new,
                       returned |-> NoReturn, again |-> NoReturn] :
                         cached \in SeqsUpTo2(MergeTransactions),
                         new \in SeqsUpTo2(MergeTransactions)}

Merge ==
    /\ last_call.op = "merge_transactions"
    /\ last_call.returned = NoReturn
    /\ last_call' = [last_call EXCEPT !.returned =
                        merge_transactions(last_call.cached, last_call.new)]
    /\ UNCHANGED <<fetchVars, twiceVars, exportVars, authVars>>

\* merge_transactions(merged, new): the same new list merged into the result.
MergeAgain ==
    /\ last_call.op = "merge_transactions"
    /\ last_call.returned # NoReturn
    /\ last_call.again = NoReturn
    /\ last_call' = [last_call EXCEPT !.again =
                        merge_transactions(last_call.returned.merged, last_call.new)]
    /\ UNCHANGED <<fetchVars, twiceVars, exportVars, authVars>>

NextMerge ==
    \/ Merge
    \/ MergeAgain

SpecMerge == InitMerge /\ [][NextMerge]_vars

\* ------------------------------------------- export_data.main, run by run ----
\* The legacy script: each run loads the cache file, fetches, merges and saves.
\* load_cache (export_data.py:26-35): the file's content, or an empty cache.
load_cache ==
    IF cache_file = NoSnapshot
    THEN [accounts |-> <<>>, transactions |-> <<>>, pots |-> <<>>, last_updated |-> FALSE]
    ELSE cache_file

\* What /accounts gives in a run: at most two accounts, open or closed.
CacheAccountLists == {accs \in AccountLists : Len(accs) <= 2}

\* What the script's fetch_transactions may return for an account: up to two
\* dicts over two IDs, the first with either of two "created" strings (they
\* carry no merchant).
CacheTransactions ==
    {[id |-> 1, created |-> <<1>>, amount |-> 5], [id |-> 1, created |-> <<2>>, amount |-> 5],
     [id |-> 2, created |-> <<1, 0>>, amount |-> 5]}

\* What a run of main leaves alone.
beyondCache ==
    <<fetchVars, twiceVars, authVars, api_accounts, no_ingest, ex_pc, accounts, active, acc_i, pots,
      transactions, results, ex_error, database, verify_ok, nhttp, last_http, pots_calls,
      fetch_calls>>

\* Faulty variant: the lists of the run replace those of the cache.
CacheMerge_replaces(cached, new) == [merged |-> new, new_count |-> Len(new)]

\* export_data.py:171-173: the cached list of the account merged with the new one.
CacheMerge(cached, new) == merge_transactions(cached, new)

\* export_data.py:127-186: a run of main that reaches save_cache.
MainSaves ==
    \E accs \in CacheAccountLists :
        LET active_accounts == ActiveOf(accs)
            ids == {active_accounts[i].id : i \in 1 .. Len(active_accounts)}
        IN  \E new_txs \in [ids -> SeqsUpTo2(CacheTransactions)] :
               LET cache == load_cache
                   cached_txs(a) == IF a \in DOMAIN cache.transactions
                                    THEN cache.transactions[a] ELSE <<>>
               IN  /\ cache_file' =
                          [accounts |-> accs,
                           pots |-> Flatten([a \in ids |-> CHOOSE p \in PotLists(a) : TRUE],
                                            Map(active_accounts, LAMBDA acc : acc.id)),
                           transactions |->
                               [a \in DOMAIN cache.transactions \cup ids |->
                                   IF a \in ids
                                   THEN CacheMerge(cached_txs(a), new_txs[a]).merged
                                   ELSE cache.transactions[a]],
                           last_updated |-> TRUE]
                   /\ last_call' = [op |-> "main", accounts |-> accs, new_txs |-> new_txs,
                                    raised |-> FALSE]
                   /\ UNCHANGED beyondCache

\* A run of main in which a request fails (raise_for_status, export_data.py:48,
\* 57, 87): the exception ends the script before save_cache.
MainRaises ==
    \E accs \in CacheAccountLists :
        /\ last_call' = [op |-> "main", accounts |-> accs, new_txs |-> <<>>, raised |-> TRUE]
        /\ UNCHANGED cache_file
        /\ UNCHANGED beyondCache

\* No cache file yet.
InitCache ==
    /\ now = Now0 + 1
    /\ accountCreated = None
    /\ days = None
    /\ Created = [t \in Ids |-> Now0]
    /\ InitLocals
    /\ OneCall
    /\ NoAuth
    /\ NoExport
    /\ last_call = NoCall

NextCache ==
    \/ MainSaves
    \/ MainRaises

SpecCache == InitCache /\ [][NextCache]_vars

\* ------------------------------- get_token.get_auth_code and do_GET ----
\* Two threads: the main thread runs get_auth_code, the server thread runs
\* serve_forever and with it do_GET, one request after the other.
\* The requests the server handles while get_auth_code waits.
MaxCallbacks == 2

\* The state token of this run, and the one of an old browser tab.
Token == "state_1"
OldToken == "state_0"

\* The GET requests that may arrive: a callback with any code (or none) and
\* any state (or none), or a request for another path.
Gets ==
    {[path |-> "/callback", code |-> c, state |-> st] :
        c \in {NULL, "code_1", "code_2"}, st \in {NULL, OldToken, Token}}
        \cup {[path |-> "/favicon.ico", code |-> NULL, state |-> NULL]}

\* What neither thread of get_auth_code touches.
beyondAuth == <<fetchVars, twiceVars, exportVars, directVars>>

\* get_token.py:105-140: the token, the reset, the server thread started.
StartServer ==
    /\ main_pc = "start"
    /\ state_token' = Token
    /\ auth_code' = NULL
    /\ AUTH_EVENT' = FALSE
    /\ main_pc' = "waiting"
    /\ UNCHANGED <<handler_pc, request, response, received, nserved, returned_code>>
    /\ UNCHANGED beyondAuth

\* get_token.py:144-145: the loop sees AUTH_EVENT set.
Wake ==
    /\ main_pc = "waiting"
    /\ AUTH_EVENT
    /\ main_pc' = "woken"
    /\ UNCHANGED <<state_token, auth_code, AUTH_EVENT, handler_pc, request, response, received,
                   nserved, returned_code>>
    /\ UNCHANGED beyondAuth

\* get_token.py:151 server.server_close(): no further request is accepted.
CloseServer ==
    /\ main_pc = "woken"
    /\ main_pc' = "closed"
    /\ UNCHANGED <<state_token, auth_code, AUTH_EVENT, handler_pc, request, response, received,
                   nserved, returned_code>>
    /\ UNCHANGED beyondAuth

\* get_token.py:152 return CallbackHandler.auth_code
ReturnCode ==
    /\ main_pc = "closed"
    /\ returned_code' = auth_code
    /\ main_pc' = "returned"
    /\ UNCHANGED <<state_token, auth_code, AUTH_EVENT, handler_pc, request, response, received,
                   nserved>>
    /\ UNCHANGED beyondAuth

\* get_token.py:146-149: Ctrl+C while waiting; None is returned.
Interrupt ==
    /\ main_pc = "waiting"
    /\ returned_code' = NULL
    /\ main_pc' = "cancelled"
    /\ UNCHANGED <<state_token, auth_code, AUTH_EVENT, handler_pc, request, response, received,
                   nserved>>
    /\ UNCHANGED beyondAuth

\* serve_forever accepts a request and calls do_GET (get_token.py:57-65).
Accept ==
    /\ main_pc \in {"waiting", "woken"}
    /\ handler_pc = "idle"
    /\ nserved < MaxCallbacks
    /\ \E get \in Gets :
          /\ request' = get
          /\ received' = received \cup {get}
    /\ nserved' = nserved + 1
    /\ handler_pc' = "check"
    /\ UNCHANGED <<state_token, auth_code, AUTH_EVENT, main_pc, response, returned_code>>
    /\ UNCHANGED beyondAuth

\* Faulty variant: the state of the callback is not compared.
CheckState_acceptsAny ==
    /\ handler_pc = "check"
    /\ IF request.path = "/callback"
       THEN handler_pc' = "store" /\ UNCHANGED response
       ELSE handler_pc' = "idle" /\ response' = 404
    /\ UNCHANGED <<state_token, auth_code, AUTH_EVENT, main_pc, request, received, nserved,
                   returned_code>>
    /\ UNCHANGED beyondAuth

\* get_token.py:62, 67-77, 92-96: the path and the state are tested.
CheckState ==
    /\ handler_pc = "check"
    /\ IF request.path = "/callback"
       THEN IF request.state # state_token
            THEN handler_pc' = "idle" /\ response' = 400
            ELSE handler_pc' = "store" /\ UNCHANGED response
       ELSE handler_pc' = "idle" /\ response' = 404
    /\ UNCHANGED <<state_token, auth_code, AUTH_EVENT, main_pc, request, received, nserved,
                   returned_code>>
    /\ UNCHANGED beyondAuth

\* get_token.py:79 CallbackHandler.auth_code = received_code
StoreCode ==
    /\ handler_pc = "store"
    /\ auth_code' = request.code
    /\ handler_pc' = "signal"
    /\ UNCHANGED <<state_token, AUTH_EVENT, main_pc, request, response, received, nserved,
                   returned_code>>
    /\ UNCHANGED beyondAuth

\* get_token.py:80-91 AUTH_EVENT.set(), then the 200 response.
Signal ==
    /\ handler_pc = "signal"
    /\ AUTH_EVENT' = TRUE
    /\ response' = 200
    /\ handler_pc' = "idle"
    /\ UNCHANGED <<state_token, auth_code, main_pc, request, received, nserved, returned_code>>
    /\ UNCHANGED beyondAuth

\* The process before get_auth_code is called (get_token.py:47, 53-54).
InitAuth ==
    /\ now = Now0 + 1
    /\ accountCreated = None
    /\ days = None
    /\ Created = [t \in Ids |-> Now0]
    /\ InitLocals
    /\ memo = <<>>
    /\ first = NoRun
    /\ NoExport
    /\ last_call = NoCall
    /\ state_token = NULL
    /\ auth_code = NULL
    /\ AUTH_EVENT = FALSE
    /\ main_pc = "start"
    /\ handler_pc = "idle"
    /\ request = NoGet
    /\ response = 0
    /\ received = {}
    /\ nserved = 0
    /\ returned_code = NULL

NextAuth ==
    \/ StartServer
    \/ Wake
    \/ CloseServer
    \/ ReturnCode
    \/ Interrupt
    \/ Accept
    \/ CheckState
    \/ StoreCode
    \/ Signal

SpecAuth == InitAuth /\ [][NextAuth]_vars

\* ------------------------------------------------------------ claims ----
Returned == pc = "returned"
Raised == pc = "raised"

\* The transactions of the upstream created in [start, now).
InWindow == {t \in Ids : start <= Created[t] /\ Created[t] < now}

\* C1: against an upstream that answers every request with 200 and the oldest
\* (at most Limit) transactions with since <= created < before, the returned
\* list contains every upstream transaction created in [start, now).
C1_Complete ==
    (Returned /\ accountCreated # None) => InWindow \subseteq Range(result)

\* Number of positions of s holding x; s and t hold the same records.
Count(s, x) == Cardinality({i \in 1 .. Len(s) : s[i] = x})
SameBag(s, t) == Len(s) = Len(t) /\ \A x \in Ids : Count(s, x) = Count(t, x)

Sorted(s) == \A i, j \in 1 .. Len(s) : i < j => Created[s[i]] <= Created[s[j]]

\* C2: the returned list contains no two transactions with the same ID,
\* whatever pages the upstream returns.
C2_NoDuplicateIds ==
    Returned => \A i, j \in 1 .. Len(result) : i < j => result[i] # result[j]

\* C3: every returned list, complete or cut short by a 403, is ordered by
\* non-decreasing created, whatever the order of arrival.
C3_Sorted == Returned => Sorted(result)

\* A list cut short by a 403 in a second chunk, whose records arrived in
\* another order than the one returned.
C3_Witness ==
    /\ Returned
    /\ last_request.status = 403
    /\ chunks_done >= 2
    /\ result # accepted
    /\ \E i, j \in 1 .. Len(result) : Created[result[i]] < Created[result[j]]

\* Ceil(a, b): a / b rounded up, 0 for a <= 0.
Ceil(a, b) == IF a <= 0 THEN 0 ELSE (a + b - 1) \div b

\* A measure of the work left: the chunks still to query, and within the
\* chunk the IDs not yet seen.
RankAt(cs, nseen) == Ceil(now - cs, Chunk) * (NumTx + 1) + (NumTx - nseen)

Rank ==
    CASE pc = "call" -> 2 + RankAt(StartOf, 0)
      [] pc = "page" -> 1 + RankAt(chunk_start, Cardinality(seen_ids))
      [] OTHER -> 0

\* C4: every page request either ends the chunk (or the call, by raising) or
\* adds a new ID to seen_ids,
\* a chunk that ends is followed by one that starts later, and so the work
\* left decreases with every step until the call returns or raises; until
\* then a step is always possible.
C4_Terminates ==
    /\ [](Rank \in Nat /\ (Returned \/ Raised \/ ENABLED Call \/ ENABLED RespondError))
    /\ [][/\ Rank' < Rank
          /\ nreq' = nreq + 1 =>
                \/ chunks_done' = chunks_done + 1
                \/ pc' = "raised"
                \/ seen_ids' # seen_ids /\ seen_ids \subseteq seen_ids'
          /\ (chunks_done' = chunks_done + 1 /\ pc' = "page") =>
                chunk_start' > chunk_start]_vars

\* A further page is due although the since cursor did not advance.
C4_Witness ==
    /\ pc = "page"
    /\ last_request.status = 200
    /\ last_request.before = before_str
    /\ cursor <= last_request.since

\* C5: a 403 with nothing accumulated in the whole fetch raises
\* SCAExpiredError, whose message says to re-authenticate or to ask for a
\* shorter window, and no list is returned.
C5_ScaRaises ==
    (last_request.status = 403 /\ accepted = <<>>) =>
        /\ Raised
        /\ error.type = "SCAExpiredError"
        /\ \E i \in 1 .. Len(error.message) :
              error.message[i] = "Run 'monzo auth --force' to reauthenticate for full history."
        /\ \E i \in 1 .. Len(error.message) :
              error.message[i] = "or run 'monzo export --days 89' to get the last 89 days."
        /\ result = <<>>

\* The 403 came in a later chunk, after requests that brought nothing.
C5_Witness ==
    /\ last_request.status = 403
    /\ accepted = <<>>
    /\ nreq >= 2
    /\ chunks_done >= 2

\* C6: a 403 after at least one accumulated transaction does not raise, and
\* the list returned holds exactly the transactions accumulated before it,
\* those of the earlier pages of the chunk of the 403 included.
C6_PartialKept ==
    (last_request.status = 403 /\ accepted # <<>>) =>
        /\ Returned
        /\ error = NoError
        /\ SameBag(result, accepted)

\* The 403 came in a second chunk, after a page of that chunk had brought
\* new transactions.
C6_Witness ==
    /\ last_request.status = 403
    /\ Returned
    /\ chunks_done >= 2
    /\ last_request.since # _to_timestamp(chunk_start)
    /\ Len(result) >= 2

\* C7: once a /transactions request has returned 403, no further request is
\* issued.
C7_NoRequestAfter403 == [][last_request.status = 403 => nreq' = nreq]_vars

\* A 403 while a later chunk was still to be queried.
C7_Witness ==
    /\ last_request.status = 403
    /\ Returned
    /\ chunk_end < now

\* C8: a 400 abandons only its chunk: nothing is raised, what was accumulated
\* is kept, the next chunk (if any) is queried from its start, and the list
\* finally returned holds every transaction obtained.
C8_BadRequestSkipsChunk ==
    /\ last_request.status = 400 =>
          /\ error = NoError
          /\ \/ /\ pc = "page"
                /\ chunk_start < now
                /\ last_request.before = _to_timestamp(chunk_start)
                /\ cursor = _to_timestamp(chunk_start)
                /\ SameBag(all_txs, accepted)
             \/ /\ Returned
                /\ chunk_start >= now
    /\ Returned => SameBag(result, accepted)

\* A chunk was abandoned on a 400 with transactions accumulated, and the
\* next chunk is about to be queried.
C8_Witness ==
    /\ last_request.status = 400
    /\ pc = "page"
    /\ all_txs # <<>>

\* C9: a list cut short by a 403 carries a flag or comes with a warning that
\* tells it from a complete one.
C9_PartialIsFlagged ==
    (Returned /\ last_request.status = 403) => console # <<>>

\* The days argument reaches further back than the account's creation.
DaysExceedAge ==
    /\ days # None
    /\ accountCreated # None
    /\ now - days * Day < accountCreated

\* C10: with days exceeding the account's age the window starts at the
\* account's creation, the first chunk with it, and nothing is raised.
C10_ClampedToCreation ==
    (DaysExceedAge /\ pc # "call") =>
        /\ start = accountCreated
        /\ nreq = 0 => chunk_start = accountCreated /\ cursor = _to_timestamp(accountCreated)
        /\ ~Raised
        /\ error = NoError

\* Such a fetch has returned transactions.
C10_Witness ==
    /\ DaysExceedAge
    /\ Returned
    /\ result # <<>>

\* C11: a fetch whose days exceed the account's age has, by the time it
\* returns, reported a notice on the console (the account is "only N days
\* old").
C11_NoticeOnClamp ==
    (DaysExceedAge /\ Returned) => console # <<>>

\* The upstream refuses a query whose window is 365 days or longer
\* (CHUNK_SIZE_DAYS is 364).
UpstreamMaxRange == (CHUNK_SIZE_DAYS + 1) * Day

\* C12: every /transactions request, the one that is due included, has a
\* window before - since shorter than the upstream's limit.
C12_WindowBelowLimit ==
    /\ last_request # NoRequest =>
          last_request.before - last_request.since < UpstreamMaxRange
    /\ pc = "page" => before_str - cursor < UpstreamMaxRange

\* C13: a second call for the same account and window against an unchanged
\* upstream ends as the first did, and when both return, their lists hold the
\* same set of transaction IDs.
C13_Idempotent ==
    (first # NoRun /\ (Returned \/ Raised)) =>
        /\ first.pc = pc
        /\ first.error = error
        /\ Range(first.result) = Range(result)

\* Both calls have returned transactions, the second after a page request.
C13_Witness ==
    /\ first.pc = "returned"
    /\ Returned
    /\ result # <<>>
    /\ nreq >= 2

\* The IDs of the accounts the API returned that are not closed.
OpenIds == {a.id : a \in {b \in Range(api_accounts) : ~b.closed}}

\* s holds every element of S exactly once.
OncePer(s, S) == Range(s) = S /\ Len(s) = Cardinality(S)

\* C14: export asks for pots and for transactions only for accounts that
\* are not closed, never twice; the snapshot it returns has the transactions
\* of exactly those accounts, each fetched exactly once, and lists every
\* account the API returned.
C14_ActiveOnly ==
    /\ Range(pots_calls) \subseteq OpenIds
    /\ Range(fetch_calls) \subseteq OpenIds
    /\ Len(fetch_calls) = Cardinality(Range(fetch_calls))
    /\ results # NoSnapshot =>
          /\ DOMAIN results.transactions = OpenIds
          /\ OncePer(fetch_calls, OpenIds)
          /\ OncePer(pots_calls, OpenIds)
          /\ results.accounts = api_accounts

\* A snapshot for a closed account and an open one with transactions.
C14_Witness ==
    /\ results # NoSnapshot
    /\ \E a \in Range(api_accounts) : a.closed
    /\ \E id \in OpenIds : results.transactions[id] # <<>>

\* C15: once fetch_transactions has raised SCAExpiredError for an account,
\* the export ends with that exception: there is no snapshot, the snapshot
\* file is not written and the store holds no row, whatever was fetched for
\* the accounts before.
C15_AllOrNothing ==
    error.type = "SCAExpiredError" =>
        /\ ex_pc \in {"fetching", "raised"}
        /\ ex_pc = "raised" => ex_error.type = "SCAExpiredError"
        /\ results = NoSnapshot
        /\ cache_file = NoSnapshot
        /\ database = EmptyDb

\* The command has ended with SCAExpiredError after the transactions of an
\* earlier account had been fetched.
C15_Witness ==
    /\ ex_pc = "raised"
    /\ ex_error.type = "SCAExpiredError"
    /\ \E id \in DOMAIN transactions : transactions[id] # <<>>

\* C16: a /transactions response with an error status other than 400 and 403
\* makes fetch_transactions raise at once, with no list returned, whatever
\* was accumulated, and export with it; an error response to /accounts or
\* /pots makes export raise, before any snapshot exists (the requests of
\* the balance verification come after the snapshot file is written); after
\* either no request of any kind follows.
C16_ErrorsPropagate ==
    /\ [](last_request.status = 500 =>
            /\ Raised
            /\ error = HTTPStatusError
            /\ result = <<>>
            /\ results = NoSnapshot
            /\ ex_pc \in {"fetching", "raised"})
    /\ [](last_http.status = 500 =>
            /\ ex_pc = "raised"
            /\ ex_error = HTTPStatusError
            /\ cache_file = NoSnapshot => results = NoSnapshot)
    /\ [][(last_request.status = 500 \/ last_http.status = 500) =>
             nreq' = nreq /\ nhttp' = nhttp]_vars

\* The error came after pages of transactions had been accepted, in the
\* fetch of a second account.
C16_Witness ==
    /\ last_request.status = 500
    /\ accepted # <<>>
    /\ ex_pc = "raised"
    /\ Len(fetch_calls) >= 2

\* The rows a direct call of an import method hands to each table.
Imported(call) ==
    LET none == [accounts |-> <<>>, merchants |-> <<>>, transactions |-> <<>>, pots |-> <<>>]
    IN  CASE call.op = "import_accounts" ->
                [none EXCEPT !.accounts = Map(call.arg, AccountRow)]
          [] call.op = "import_merchants" ->
                [none EXCEPT !.merchants = Map(call.arg, MerchantRow)]
          [] call.op = "import_transactions" ->
                [none EXCEPT !.transactions = Map(call.arg, TransactionRow)]
          [] call.op = "import_pots" ->
                [none EXCEPT !.pots = Map(call.arg, PotRow)]
          [] call.op = "import_data" ->
                [accounts |-> Map(call.arg.accounts, AccountRow),
                 merchants |-> Map(all_merchants(call.arg), MerchantRow),
                 transactions |-> Map(all_transactions(call.arg), TransactionRow),
                 pots |-> Map(call.arg.pots, PotRow)]
          [] OTHER -> none

Tables == {"accounts", "merchants", "transactions", "pots"}

RowIds(rows) == {rows[i].id : i \in 1 .. Len(rows)}

\* The one row of each id of rows is the last row of that id in rows.
LastWins(tbl, rows) ==
    \A i \in 1 .. Len(rows) :
        (\A j \in i + 1 .. Len(rows) : rows[j].id # rows[i].id)
            => {r \in tbl : r.id = rows[i].id} = {rows[i]}

\* The same call made once more on db, as far as the tables go.
Again(db, call) ==
    CASE call.op = "import_accounts" -> import_accounts(db, call.arg)
      [] call.op = "import_merchants" -> import_merchants(db, call.arg)
      [] call.op = "import_transactions" -> import_transactions(db, call.arg)
      [] call.op = "import_pots" -> import_pots(db, call.arg)
      [] call.op = "import_data" -> import_data(db, call.arg)
      [] OTHER -> db

\* C17: whatever import methods were called, in whatever order, every table
\* holds one row per id; after an import that completed, the row of each
\* imported id is the last one imported, the same import made once more
\* leaves the tables as they are, and the table holds the ids it held and the
\* imported ones; no import touches a row of an id it was not given.
C17_ImportIsUpsert ==
    /\ [](\A f \in Tables : Cardinality(database[f]) = Cardinality(Keys(database[f])))
    /\ [](~database.raised =>
            /\ \A f \in Tables : LastWins(database[f], Imported(last_call)[f])
            /\ Again(database, last_call) = database)
    /\ [][\A f \in Tables :
            /\ \A r \in database[f] :
                  r.id \notin RowIds(Imported(last_call')[f]) => r \in database'[f]
            /\ ~database'.raised =>
                  Keys(database'[f]) = Keys(database[f]) \cup RowIds(Imported(last_call')[f])]_vars

\* Two versions of one transaction were imported in one call, next to a
\* transaction stored before, into a store that holds accounts, the merchant
\* and a pot.
C17_Witness ==
    /\ last_call.op = "import_transactions"
    /\ ~database.raised
    /\ Len(last_call.arg) = 2
    /\ last_call.arg[1].id = last_call.arg[2].id
    /\ last_call.arg[1] # last_call.arg[2]
    /\ Cardinality(database.transactions) = 2
    /\ Cardinality(database.accounts) = 2
    /\ database.merchants # {}
    /\ database.pots # {}

\* The transactions of the store that count for account a: not declined.
Counted(a) ==
    {r \in database.transactions : r.account_id = a /\ r.decline_reason = NULL}

\* C18: for every account with a transaction that was not declined,
\* account_balances gives the sum of the amounts of its transactions that
\* were not declined, in pounds; the view has one row per account and date
\* with such a transaction, its daily_net is the sum of their amounts on that
\* date and its eod_balance the sum of the daily_net of the account's dates
\* up to that date.
C18_BalanceIsSum ==
    LET view == daily_balances(database.transactions)
        balances == account_balances(database)
        owners == {r.account_id : r \in {q \in database.transactions : q.decline_reason = NULL}}
        on(a, d) == {r \in Counted(a) : DateOf(r.created) = d}
    IN  /\ DOMAIN balances = owners
        /\ \A a \in owners : balances[a] = Pounds(SumOf(Counted(a), "amount"))
        /\ {<<v.account_id, v.date>> : v \in view}
              = {<<r.account_id, DateOf(r.created)>> :
                    r \in {q \in database.transactions : q.decline_reason = NULL}}
        /\ \A v \in view :
              /\ v.daily_net = SumOf(on(v.account_id, v.date), "amount")
              /\ v.eod_balance =
                    SumOf({r \in Counted(v.account_id) : DateOf(r.created) <= v.date}, "amount")
              /\ \A w \in view : (w.account_id = v.account_id /\ w.date = v.date) => w = v

\* The export stored, for one account, two transactions of different dates
\* that count and a declined one.
C18_Witness ==
    /\ ex_pc \in {"verify", "done"}
    /\ \E a \in AccIds :
          /\ \E r, q \in Counted(a) : DateOf(r.created) < DateOf(q.created)
          /\ \E r \in database.transactions : r.account_id = a /\ r.decline_reason # NULL

\* C19: _verify_balances gives one row per account that is not closed and has
\* a live balance, and none for the others; the row reports a mismatch
\* exactly when the live balance and the store's balance (0 for an account
\* the store has no balance for) differ by more than one minor unit; True is
\* returned exactly when no row reports a mismatch.
C19_MismatchBeyondTolerance ==
    (last_call.op = "_verify_balances" /\ last_call.returned # NoReturn) =>
        LET accs == last_call.accounts
            api == last_call.api_balances
            db == last_call.db_balances
            out == last_call.returned
            shown == SelectSeq(accs, LAMBDA acc : ~acc.closed /\ acc.id \in DOMAIN api)
            stored(id) == IF id \in DOMAIN db THEN db[id].hundredths ELSE 0
        IN  /\ Len(out.rows) = Len(shown)
            /\ \A i \in 1 .. Len(shown) :
                  /\ out.rows[i].id = shown[i].id
                  /\ ~out.rows[i].ok <=>
                        Abs(api[shown[i].id].hundredths - stored(shown[i].id)) > 1
            /\ out.all_ok <=> \A i \in 1 .. Len(out.rows) : out.rows[i].ok

\* C20: the list merge_transactions(cached, new) returns has one entry per ID
\* of cached or new and no other; the entry of an ID of new is a version from
\* new, that of any other ID a version from cached; the entries ascend by
\* "created"; and merging new into the returned list returns that list.
C20_MergeDedupes ==
    (last_call.op = "merge_transactions" /\ last_call.returned # NoReturn) =>
        LET cached == last_call.cached
            new == last_call.new
            merged == last_call.returned.merged
        IN  /\ DictKeys(merged) = DictKeys(cached) \cup DictKeys(new)
            /\ Len(merged) = Cardinality(DictKeys(merged))
            /\ \A i \in 1 .. Len(merged) :
                  IF merged[i].id \in DictKeys(new)
                  THEN merged[i] \in Range(new)
                  ELSE merged[i] \in Range(cached)
            /\ \A i, j \in 1 .. Len(merged) :
                  i < j => StrLeq(merged[i].created, merged[j].created)
            /\ last_call.again # NoReturn => last_call.again.merged = merged

\* Merged twice: an ID of both lists with two versions, an ID of cached only,
\* and an ID of new only that sorts before the cached ones.
C20_Witness ==
    /\ last_call.op = "merge_transactions"
    /\ last_call.again # NoReturn
    /\ Len(last_call.returned.merged) = 3
    /\ \E i \in 1 .. Len(last_call.cached), j \in 1 .. Len(last_call.new) :
          /\ last_call.cached[i].id = last_call.new[j].id
          /\ last_call.cached[i] # last_call.new[j]
    /\ last_call.returned.merged[1].id \notin DictKeys(last_call.cached)

\* The IDs the cache file holds for account a.
CachedIds(file, a) ==
    IF file = NoSnapshot \/ a \notin DOMAIN file.transactions THEN {}
    ELSE DictKeys(file.transactions[a])

\* C21: no run of main takes a transaction ID out of the cache: whatever the
\* API returns in a run, and whether the run saves or fails, every ID the
\* cache file held for an account before the run it holds for that account
\* after it (and so after every later run).
C21_CacheAccumulates ==
    [][\A a \in AccIds : CachedIds(cache_file, a) \subseteq CachedIds(cache_file', a)]_vars

\* A run saved although the API returned, for an account whose cached history
\* has two IDs, a history without one of them; and one account of the cache
\* was not listed as open in that run.
C21_Witness ==
    /\ last_call.op = "main"
    /\ ~last_call.raised
    /\ \E a \in DOMAIN last_call.new_txs :
          /\ Cardinality(CachedIds(cache_file, a)) = 2
          /\ Cardinality(DictKeys(last_call.new_txs[a])) = 1
    /\ \E a \in AccIds \ DOMAIN last_call.new_txs : CachedIds(cache_file, a) # {}

\* The newest creation time among the records of a page.
NewestOfPage(page) ==
    LET i == CHOOSE k \in 1 .. Len(page) : \A j \in 1 .. Len(page) : Created[page[j]] <= Created[page[k]]
    IN  Created[page[i]]

\* C22: a page that yields a new transaction is followed by a request of the
\* same chunk whose since is the newest creation time of that page minus one
\* second (as a timestamp) and whose before is unchanged; the records of the
\* page that were seen before are not accepted again.
C22_CursorBackoff ==
    [][(pc = "page" /\ accepted' # accepted) =>
          \E page \in HonestPages(cursor, before_str) :
              /\ accepted' = accepted \o SelectSeq(page, LAMBDA t : t \notin seen_ids)
              /\ pc' = "page"
              /\ chunk_start' = chunk_start
              /\ cursor' = _to_timestamp(NewestOfPage(page) - Second)
              /\ before_str' = before_str]_vars

Matching == {get \in received : get.path = "/callback" /\ get.state = Token}

\* C24: a callback whose state is not the token of this run, or is missing,
\* is answered with 400 and changes neither auth_code nor AUTH_EVENT; only a
\* callback with the token gets to store its code; whenever AUTH_EVENT is set,
\* auth_code is the code of such a callback; and what get_auth_code returns
\* when it was woken is the code of such a callback, however the steps of
\* the server thread and of the main thread interleave.
C24_StateChecked ==
    /\ [][(handler_pc = "check" /\ handler_pc' # "check"
             /\ request.path = "/callback" /\ request.state # Token) =>
            /\ handler_pc' = "idle"
            /\ response' = 400
            /\ auth_code' = auth_code
            /\ AUTH_EVENT' = AUTH_EVENT]_vars
    /\ [](handler_pc \in {"store", "signal"} => request \in Matching)
    /\ [](auth_code # NULL => \E get \in Matching : get.code = auth_code)
    /\ [](AUTH_EVENT => \E get \in Matching : get.code = auth_code)
    /\ [](main_pc = "returned" => \E get \in Matching : get.code = returned_code)
    /\ [](main_pc = "cancelled" => returned_code = NULL)

\* get_auth_code returned a code although a callback with the state of an
\* old tab arrived first and was refused.
C24_Witness ==
    /\ main_pc = "returned"
    /\ returned_code = "code_2"
    /\ nserved = 2
    /\ \E get \in received : get.path = "/callback" /\ get.state = OldToken /\ get.code = "code_1"
    /\ "code_1" \notin {get.code : get \in Matching}

\* C25: at every point of a fetch, the seen set is the set of the IDs of the
\* transactions accumulated so far (those of the chunks done and of the
\* current chunk), and there are as many of them as the seen set has IDs.
C25_SeenIsAccumulated ==
    pc \in {"page", "returned", "raised"} =>
        /\ seen_ids = Range(all_txs \o txs)
        /\ Len(all_txs \o txs) = Cardinality(seen_ids)

\* C26: every request of a chunk, the first and those after a page, has a
\* since that is not before the chunk's start (as a timestamp), no request has
\* a since before the start of the window, and no returned transaction was
\* created before it.
C26_SinceNotBeforeChunk ==
    /\ pc = "page" => cursor >= _to_timestamp(chunk_start)
    /\ last_request # NoRequest => last_request.since >= _to_timestamp(start)
    /\ Returned => \A i \in 1 .. Len(result) : Created[result[i]] >= _to_timestamp(start)

\* C27: the number of chunks processed never exceeds the announced total:
\* chunks_done <= total_chunks at every point of a fetch.
C27_DoneWithinTotal ==
    pc # "call" => chunks_done <= total_chunks

\* The start of the window of an account without creation timestamp.
DefaultStart == now - CHUNK_SIZE_DAYS * Day

\* C28: for an account without creation timestamp the window starts at
\* now - CHUNK_SIZE_DAYS days when days is None or above CHUNK_SIZE_DAYS; a
\* full-history fetch has the single chunk [now - CHUNK_SIZE_DAYS days, now);
\* the fetch raises nothing; and no request, the one that is due included,
\* has a since before now - CHUNK_SIZE_DAYS days.
C28_NoCreationTimestamp ==
    (accountCreated = None /\ pc # "call") =>
        /\ (days = None \/ days > CHUNK_SIZE_DAYS) => start = DefaultStart
        /\ (days = None /\ pc = "page") =>
              (chunks_done = 0 /\ chunk_start = DefaultStart /\ chunk_end = now)
        /\ (days = None /\ Returned) => (chunks_done = 1 /\ chunk_start = now)
        /\ ~Raised
        /\ last_request # NoRequest => last_request.since >= _to_timestamp(DefaultStart)
        /\ pc = "page" => cursor >= _to_timestamp(DefaultStart)

\* C29: the list merge_transactions returns has as many entries as cached has
\* distinct IDs plus the new_count it returns.
C29_NewCountIsAdded ==
    (last_call.op = "merge_transactions" /\ last_call.returned # NoReturn) =>
        Len(last_call.returned.merged) =
            Cardinality(DictKeys(last_call.cached)) + last_call.returned.new_count

\* The transactions and pots of the snapshot are of accounts of the snapshot.
SelfContained(data) ==
    LET ids == RowIds(Map(data.accounts, AccountRow))
    IN  /\ \A r \in Range(Map(all_transactions(data), TransactionRow)) : r.account_id \in ids
        /\ \A r \in Range(Map(data.pots, PotRow)) : r.account_id \in ids

\* C30: import_data of a snapshot whose transactions and pots are of its own
\* accounts completes; every transaction row of the snapshot is stored, of an
\* account of the store, with a merchant_id that is null or the id of a
\* merchant row imported from the same snapshot; every pot row of the snapshot
\* is of an account of the store.
C30_ImportKeepsReferences ==
    (last_call.op = "import_data" /\ SelfContained(last_call.arg)) =>
        LET rows == Imported(last_call)
        IN  /\ ~database.raised
            /\ \A r \in Range(rows.transactions) :
                  /\ r.id \in Keys(database.transactions)
                  /\ r.account_id \in Keys(database.accounts)
                  /\ r.merchant_id = NULL \/ r.merchant_id \in RowIds(rows.merchants)
            /\ \A r \in Range(rows.pots) : r.account_id \in Keys(database.accounts)

=============================================================================
